---------------------------- MODULE Spec2Model ----------------------------
(***************************************************************************)
(* A model of the asynchronous External Term Format codec of eetf          *)
(* (src/src/async_codec.rs, src/src/codec_common.rs).                      *)
(*                                                                         *)
(* AsyncEncoder::encode and AsyncDecoder::decode are sequential programs   *)
(* over a byte sink / byte source; each is a pure function of its input,   *)
(* so each is an operator here, computed field by field as the code        *)
(* writes / reads them, and one action runs one whole call.                *)
(*                                                                         *)
(* Representation                                                          *)
(*   bytes        integers 0..255, byte strings are sequences of them      *)
(*   Term         a record with a "type" field naming the variant          *)
(*   Atom.name    the UTF-8 bytes of the Rust String                       *)
(*   u32 / u64    fields the codec only copies (ids, serial, creation,     *)
(*                index, the f64 of a Float) are kept as their big-endian  *)
(*                byte words, since TLC's integers are 32-bit signed       *)
(*   i32          FixInteger.value and the fun's index/uniq are integers   *)
(*   BigInteger   num-bigint's sign and little-endian magnitude            *)
(*   Map.entries  the sequence of (key, value) pairs in the HashMap's      *)
(*                iteration order; two Maps are equal when they hold the   *)
(*                same set of pairs (TermEq)                               *)
(***************************************************************************)
EXTENDS Integers, Sequences, FiniteSets, TLC

VARIABLES
    term,          \* the Term handed to AsyncEncoder::encode
    sink,          \* the bytes the encoder wrote to its writer
    enc_result,    \* what encode returned: [st, err]
    wire,          \* the bytes that set out for the decoder
    source,        \* the bytes of the decoder's reader
    origin,        \* how the source came from the wire: whole, raw, prefix, tampered
    dec_result,    \* what decode returned: [st, term, err, pos, tags]
    calls,         \* two calls in flight at once, each with its own stream
    scratch        \* AsyncDecoder.buf of each decoder

vars == <<term, sink, enc_result, wire, source, origin, dec_result, calls, scratch>>

---------------------------------------------------------------------------
(* Wire constants, codec_common.rs                                         *)

VERSION == 131
DISTRIBUTION_HEADER == 68
NEW_FLOAT_EXT == 70
BIT_BINARY_EXT == 77
COMPRESSED_TERM == 80
ATOM_CACHE_REF == 82
NEW_PID_EXT == 88
NEW_PORT_EXT == 89
NEWER_REFERENCE_EXT == 90
SMALL_INTEGER_EXT == 97
INTEGER_EXT == 98
FLOAT_EXT == 99
ATOM_EXT == 100
REFERENCE_EXT == 101
PORT_EXT == 102
PID_EXT == 103
SMALL_TUPLE_EXT == 104
LARGE_TUPLE_EXT == 105
NIL_EXT == 106
STRING_EXT == 107
LIST_EXT == 108
BINARY_EXT == 109
SMALL_BIG_EXT == 110
LARGE_BIG_EXT == 111
NEW_FUN_EXT == 112
EXPORT_EXT == 113
NEW_REFERENCE_EXT == 114
SMALL_ATOM_EXT == 115
MAP_EXT == 116
FUN_EXT == 117
ATOM_UTF8_EXT == 118
SMALL_ATOM_UTF8_EXT == 119
V4_PORT_EXT == 120

\* std::u8::MAX, std::u16::MAX and the literals 0x100, 0xFFFF of the encoder
U8_MAX == 255
U16_MAX == 65535

\* the tags decode_term_with_tag has an arm for
DispatchedTags ==
    { NEW_FLOAT_EXT, BIT_BINARY_EXT, ATOM_CACHE_REF, SMALL_INTEGER_EXT,
      INTEGER_EXT, FLOAT_EXT, ATOM_EXT, REFERENCE_EXT, PORT_EXT, NEW_PORT_EXT,
      V4_PORT_EXT, PID_EXT, NEW_PID_EXT, SMALL_TUPLE_EXT, LARGE_TUPLE_EXT,
      NIL_EXT, STRING_EXT, LIST_EXT, BINARY_EXT, SMALL_BIG_EXT, LARGE_BIG_EXT,
      NEW_FUN_EXT, EXPORT_EXT, NEW_REFERENCE_EXT, SMALL_ATOM_EXT, MAP_EXT,
      FUN_EXT, ATOM_UTF8_EXT, SMALL_ATOM_UTF8_EXT, NEWER_REFERENCE_EXT }

\* every tag constant codec_common.rs declares
KnownTags == DispatchedTags \cup {DISTRIBUTION_HEADER, COMPRESSED_TERM}

---------------------------------------------------------------------------
(* Fixed-width integers                                                    *)

\* write_u8(n as u8)
u8_of(n) == n % 256

\* write_u16(n as u16), big-endian
u16_bytes(n) == << (n \div 256) % 256, n % 256 >>

\* write_u32(n as u32), big-endian; n is a length, below 2^31
u32_bytes(n) ==
    << (n \div 16777216) % 256, (n \div 65536) % 256, (n \div 256) % 256, n % 256 >>

\* write_i32(v), big-endian two's complement
i32_bytes(v) ==
    IF v >= 0 THEN u32_bytes(v)
    ELSE LET m == (v + 2147483647) + 1      \* v + 2^31, the low 31 bits
         IN  << 128 + (m \div 16777216), (m \div 65536) % 256,
                (m \div 256) % 256, m % 256 >>

\* read_u16, big-endian
be_u16(b) == b[1] * 256 + b[2]

\* read_u32 as a count, big-endian.  A count of 2^31 or more is held at the
\* largest integer TLC has; it only ever bounds a loop or a read_exact that
\* the source (far shorter) ends first.
be_u32(b) ==
    IF b[1] >= 128 THEN 2147483647
    ELSE ((b[1] * 256 + b[2]) * 256 + b[3]) * 256 + b[4]

\* read_i32, big-endian two's complement
be_i32(b) ==
    ((((IF b[1] >= 128 THEN b[1] - 256 ELSE b[1]) * 256 + b[2]) * 256) + b[3]) * 256 + b[4]

\* u32::from(u8) / `as u32` of a byte: zero-extended to a 4-byte word
word_of_u8(b) == <<0, 0, 0, b>>

\* u64::from(u32): zero-extended to an 8-byte word
u64_of_word(w) == <<0, 0, 0, 0>> \o w

\* the sequence f[1], ..., f[n], held as a tuple
Tup(f, n) == SubSeq(f, 1, n)

Pow2(n) == CASE n = 0 -> 1 [] n = 1 -> 2 [] n = 2 -> 4 [] n = 3 -> 8 [] n = 4 -> 16
             [] n = 5 -> 32 [] n = 6 -> 64 [] n = 7 -> 128 [] OTHER -> 256

---------------------------------------------------------------------------
(* The Term model (lib.rs of the crate, described in section 3 of the      *)
(* specification): one constructor per variant.                            *)

Atom(name) == [type |-> "Atom", name |-> name]
FixInteger(v) == [type |-> "FixInteger", value |-> v]
BigInteger(sign, mag) == [type |-> "BigInteger", sign |-> sign, mag |-> mag]
Float(bits) == [type |-> "Float", bits |-> bits]
Pid(node, id, serial, creation) ==
    [type |-> "Pid", node |-> node, id |-> id, serial |-> serial, creation |-> creation]
Port(node, id, creation) ==
    [type |-> "Port", node |-> node, id |-> id, creation |-> creation]
Reference(node, ids, creation) ==
    [type |-> "Reference", node |-> node, ids |-> ids, creation |-> creation]
ExternalFun(module, function, arity) ==
    [type |-> "ExternalFun", module |-> module, function |-> function, arity |-> arity]
InternalFunOld(module, pid, free_vars, index, uniq) ==
    [type |-> "InternalFunOld", module |-> module, pid |-> pid,
     free_vars |-> free_vars, index |-> index, uniq |-> uniq]
InternalFunNew(module, arity, pid, free_vars, index32, uniq16, old_index, old_uniq) ==
    [type |-> "InternalFunNew", module |-> module, arity |-> arity, pid |-> pid,
     free_vars |-> free_vars, index32 |-> index32, uniq16 |-> uniq16,
     old_index |-> old_index, old_uniq |-> old_uniq]
Binary(bytes) == [type |-> "Binary", bytes |-> bytes]
BitBinary(bytes, n) == [type |-> "BitBinary", bytes |-> bytes, tail_bits_size |-> n]
List(elements) == [type |-> "List", elements |-> elements]
ImproperList(elements, last) ==
    [type |-> "ImproperList", elements |-> elements, last |-> last]
Tuple(elements) == [type |-> "Tuple", elements |-> elements]
Map(entries) == [type |-> "Map", entries |-> entries]
ByteList(bytes) == [type |-> "ByteList", bytes |-> bytes]

\* List::nil() and List::is_nil
Nil == List(<<>>)
is_nil(t) == t.type = "List" /\ t.elements = <<>>

\* Float::try_from(f64): a value is finite unless its 11 exponent bits are all ones
is_finite(bits) == ~ (bits[1] % 128 = 127 /\ bits[2] \div 16 = 15)

\* Term equality (derived PartialEq): structural, and for a Map the equality
\* of HashMaps, which does not depend on the iteration order.
RECURSIVE Canon(_)
CanonAll(ts) == Tup([i \in 1..Len(ts) |-> Canon(ts[i])], Len(ts))
Canon(t) ==
    CASE t.type \in {"List", "Tuple"} ->
           [t EXCEPT !.elements = CanonAll(t.elements)]
      [] t.type = "ImproperList" ->
           [t EXCEPT !.elements = CanonAll(t.elements), !.last = Canon(t.last)]
      [] t.type \in {"InternalFunOld", "InternalFunNew"} ->
           [t EXCEPT !.free_vars = CanonAll(t.free_vars)]
      [] t.type = "Map" ->
           [type |-> "Map",
            pairs |-> { <<Canon(t.entries[i][1]), Canon(t.entries[i][2])>> :
                            i \in 1..Len(t.entries) }]
      [] OTHER -> t

TermEq(a, b) == Canon(a) = Canon(b)

\* HashMap::insert: a later duplicate key overwrites the earlier value
map_insert(entries, k, v) ==
    IF \E i \in 1..Len(entries) : TermEq(entries[i][1], k)
    THEN Tup([i \in 1..Len(entries) |->
                 IF TermEq(entries[i][1], k) THEN <<entries[i][1], v>> ELSE entries[i]],
             Len(entries))
    ELSE Append(entries, <<k, v>>)

---------------------------------------------------------------------------
(* Results.  An encode result is what the call returned and what it had    *)
(* written when it returned; a panic (unimplemented!, an arithmetic        *)
(* overflow under overflow checks) returns nothing to the caller.          *)

NoErr == [type |-> "None"]
NoTerm == [type |-> "None"]

\* the write_* calls on the Vec / sink: they append and cannot fail
W(bytes) == [st |-> "Ok", err |-> NoErr, out |-> bytes]
EncErr(e) == [st |-> "Err", err |-> e, out |-> <<>>]
EncPanic == [st |-> "Panic", err |-> NoErr, out |-> <<>>]

\* `a?; b`: b runs only when a returned Ok; both write to the same sink
Then(a, b) == IF a.st # "Ok" THEN a ELSE [b EXCEPT !.out = a.out \o @]

\* `a; b` where a's Result is dropped: a's error is lost, its bytes stay
\* in the buffer, and only a panic still unwinds
Ignoring(a, b) == IF a.st = "Panic" THEN a ELSE [b EXCEPT !.out = a.out \o @]

\* 8 - tail_bits_size in u8, then a shift of a u8 by that amount.  Under
\* overflow checks (oc: the debug profile) the subtraction panics when it
\* underflows and the shift panics when the amount is 8 or more; without them
\* the subtraction wraps and the shift amount is taken modulo 8.
shift_panics(n, oc) == oc /\ (n > 8 \/ 8 - n >= 8)
shift_amount(n) == (IF n > 8 THEN 256 + 8 - n ELSE 8 - n) % 8
shl_u8(b, s) == (b * Pow2(s)) % 256
\* the decoder keeping the wire byte as it is
shr_u8_none(b, s) == b
shr_u8(b, s) == b \div Pow2(s)

---------------------------------------------------------------------------
(* AsyncEncoder                                                            *)

RECURSIVE encode_term(_, _)
RECURSIVE encode_terms(_, _, _, _)
RECURSIVE encode_entries(_, _, _, _)

encode_nil == W(<<NIL_EXT>>)

encode_atom(x) ==
    IF Len(x.name) > U16_MAX THEN EncErr([type |-> "TooLongAtomName"])
    ELSE LET is_ascii == \A i \in 1..Len(x.name) : x.name[i] < 128
         IN  W(<<IF is_ascii THEN ATOM_EXT ELSE ATOM_UTF8_EXT>>
               \o u16_bytes(Len(x.name)) \o x.name)

\* encode_fix_integer with the 1-byte form ending one value early
encode_fix_integer_below_max(v) ==
    IF 0 <= v /\ v < U8_MAX
    THEN W(<<SMALL_INTEGER_EXT, u8_of(v)>>)
    ELSE W(<<INTEGER_EXT>> \o i32_bytes(v))

encode_fix_integer(v) ==
    IF 0 <= v /\ v <= U8_MAX
    THEN W(<<SMALL_INTEGER_EXT, u8_of(v)>>)
    ELSE W(<<INTEGER_EXT>> \o i32_bytes(v))

\* BigInt::to_bytes_le: the magnitude, <<0>> for zero
to_bytes_le(x) == IF x.mag = <<>> THEN <<0>> ELSE x.mag
sign_to_byte(sign) == IF sign = "Minus" THEN 1 ELSE 0

\* The third arm (TooLargeInteger) needs a magnitude of more than u32::MAX
\* bytes, which no sequence of the model has.
encode_big_integer(x) ==
    LET bytes == to_bytes_le(x)
    IN  Then(IF Len(bytes) <= U8_MAX
             THEN W(<<SMALL_BIG_EXT, u8_of(Len(bytes))>>)
             ELSE W(<<LARGE_BIG_EXT>> \o u32_bytes(Len(bytes))),
             W(<<sign_to_byte(x.sign)>> \o bytes))

encode_float(x) == W(<<NEW_FLOAT_EXT>> \o x.bits)

encode_pid(x) ==
    Then(W(<<NEW_PID_EXT>>),
    Then(encode_atom(x.node),
         W(x.id \o x.serial \o x.creation)))

encode_port(x) ==
    IF SubSeq(x.id, 1, 4) = <<0, 0, 0, 0>>
    THEN Then(W(<<NEW_PORT_EXT>>),
         Then(encode_atom(x.node),
              W(SubSeq(x.id, 5, 8) \o x.creation)))
    ELSE Then(W(<<V4_PORT_EXT>>),
         Then(encode_atom(x.node),
              W(x.id \o x.creation)))

\* concatenation of the id words, halving so that 65535 words need no deep recursion
RECURSIVE concat_words(_, _, _)
concat_words(ws, lo, hi) ==
    IF lo > hi THEN <<>>
    ELSE IF lo = hi THEN ws[lo]
    ELSE LET mid == (lo + hi) \div 2
         IN  concat_words(ws, lo, mid) \o concat_words(ws, mid + 1, hi)

encode_reference(x) ==
    Then(W(<<NEWER_REFERENCE_EXT>>),
         IF Len(x.ids) > U16_MAX THEN EncErr([type |-> "TooLargeReferenceId"])
         ELSE Then(W(u16_bytes(Len(x.ids))),
              Then(encode_atom(x.node),
                   W(x.creation \o concat_words(x.ids, 1, Len(x.ids))))))

encode_external_fun(x) ==
    Then(W(<<EXPORT_EXT>>),
    Then(encode_atom(x.module),
    Then(encode_atom(x.function),
         encode_fix_integer(x.arity))))

encode_binary(x) == W(<<BINARY_EXT>> \o u32_bytes(Len(x.bytes)) \o x.bytes)

encode_bit_binary(x, oc) ==
    LET n == Len(x.bytes)
        head == W(<<BIT_BINARY_EXT>> \o u32_bytes(n) \o <<x.tail_bits_size>>)
    IN  IF n = 0 THEN head
        ELSE IF shift_panics(x.tail_bits_size, oc)
        THEN Then(head, Then(W(SubSeq(x.bytes, 1, n - 1)), EncPanic))
        ELSE Then(head,
                  W(SubSeq(x.bytes, 1, n - 1)
                    \o <<shl_u8(x.bytes[n], shift_amount(x.tail_bits_size))>>))

encode_byte_list(bytes) == W(<<STRING_EXT>> \o u16_bytes(Len(bytes)) \o bytes)

\* to_byte with the bound one too low
to_byte_is_some_below_max(e) == e.type = "FixInteger" /\ e.value < U8_MAX

\* the closure to_byte of encode_list: Some(i as u8) when i < 0x100
to_byte_is_some(e) == e.type = "FixInteger" /\ e.value < U8_MAX + 1
to_byte(e) == u8_of(e.value)

\* encode_list without the is_nil test: the empty list as LIST_EXT, count 0, NIL
encode_list_no_nil_test(x, oc) ==
    LET n == Len(x.elements)
    IN  IF n # 0 /\ n <= U16_MAX /\ \A i \in 1..n : to_byte_is_some(x.elements[i])
        THEN W(<<STRING_EXT>> \o u16_bytes(n)
               \o Tup([i \in 1..n |-> to_byte(x.elements[i])], n))
        ELSE Then(W(<<LIST_EXT>> \o u32_bytes(n)),
             Then(encode_terms(x.elements, 1, n, oc),
                  encode_nil))

encode_list(x, oc) ==
    LET n == Len(x.elements)
    IN  IF n # 0 /\ n <= U16_MAX /\ \A i \in 1..n : to_byte_is_some(x.elements[i])
        THEN W(<<STRING_EXT>> \o u16_bytes(n)
               \o Tup([i \in 1..n |-> to_byte(x.elements[i])], n))
        ELSE IF ~ is_nil(x)
        THEN Then(W(<<LIST_EXT>> \o u32_bytes(n)),
             Then(encode_terms(x.elements, 1, n, oc),
                  encode_nil))
        ELSE encode_nil

encode_improper_list(x, oc) ==
    Then(W(<<LIST_EXT>> \o u32_bytes(Len(x.elements))),
    Then(encode_terms(x.elements, 1, Len(x.elements), oc),
         encode_term(x.last, oc)))

encode_tuple(x, oc) ==
    LET n == Len(x.elements)
    IN  Then(IF n < U8_MAX + 1
             THEN W(<<SMALL_TUPLE_EXT, u8_of(n)>>)
             ELSE W(<<LARGE_TUPLE_EXT>> \o u32_bytes(n)),
             encode_terms(x.elements, 1, n, oc))

encode_map(x, oc) ==
    Then(W(<<MAP_EXT>> \o u32_bytes(Len(x.entries))),
         encode_entries(x.entries, 1, Len(x.entries), oc))

\* The blocking Encoder of codec.rs, which the New branch of
\* encode_internal_fun runs over its temporary buffer: the same tag table.
sync_encode_atom(x) == encode_atom(x)
sync_encode_fix_integer(v) == encode_fix_integer(v)
sync_encode_pid(x) == encode_pid(x)
sync_encode_term(t, oc) == encode_term(t, oc)

\* `for v in free_vars { tmp.encode_term(v); }`: every Result is dropped
RECURSIVE sync_encode_free_vars(_, _, _)
sync_encode_free_vars(vs, i, oc) ==
    IF i > Len(vs) THEN W(<<>>)
    ELSE Ignoring(sync_encode_term(vs[i], oc), sync_encode_free_vars(vs, i + 1, oc))

\* The temporary buffer of the New branch.  write_all(&mut tmp.writer, uniq)
\* is tokio's AsyncWriteExt::write_all: it builds a future that is never
\* awaited, so the 16 uniq bytes are not written.
new_fun_buf(x, oc) ==
    Ignoring(W(<<u8_of(x.arity)>>),
    Ignoring(W(x.index32),
    Ignoring(W(u32_bytes(Len(x.free_vars))),
    Ignoring(sync_encode_atom(x.module),
    Ignoring(sync_encode_fix_integer(x.old_index),
    Ignoring(sync_encode_fix_integer(x.old_uniq),
    Ignoring(sync_encode_pid(x.pid),
             sync_encode_free_vars(x.free_vars, 1, oc))))))))

encode_internal_fun(x, oc) ==
    IF x.type = "InternalFunOld"
    THEN Then(W(<<FUN_EXT>> \o u32_bytes(Len(x.free_vars))),
         Then(encode_pid(x.pid),
         Then(encode_atom(x.module),
         Then(encode_fix_integer(x.index),
         Then(encode_fix_integer(x.uniq),
              encode_terms(x.free_vars, 1, Len(x.free_vars), oc))))))
    ELSE LET buf == new_fun_buf(x, oc)
         IN  Then(W(<<NEW_FUN_EXT>>),
                  IF buf.st = "Panic" THEN EncPanic
                  ELSE W(u32_bytes(4 + Len(buf.out)) \o buf.out))

encode_term(t, oc) ==
    CASE t.type = "Atom" -> encode_atom(t)
      [] t.type = "FixInteger" -> encode_fix_integer(t.value)
      [] t.type = "BigInteger" -> encode_big_integer(t)
      [] t.type = "Float" -> encode_float(t)
      [] t.type = "Pid" -> encode_pid(t)
      [] t.type = "Port" -> encode_port(t)
      [] t.type = "Reference" -> encode_reference(t)
      [] t.type = "ExternalFun" -> encode_external_fun(t)
      [] t.type \in {"InternalFunOld", "InternalFunNew"} -> encode_internal_fun(t, oc)
      [] t.type = "Binary" -> encode_binary(t)
      [] t.type = "BitBinary" -> encode_bit_binary(t, oc)
      [] t.type = "List" -> encode_list(t, oc)
      [] t.type = "ImproperList" -> encode_improper_list(t, oc)
      [] t.type = "Tuple" -> encode_tuple(t, oc)
      [] t.type = "Map" -> encode_map(t, oc)
      [] t.type = "ByteList" -> encode_byte_list(t.bytes)

\* `for e in &x.elements { self.encode_term(e).await?; }` over elements lo..hi
encode_terms(es, lo, hi, oc) ==
    IF lo > hi THEN W(<<>>)
    ELSE IF lo = hi THEN encode_term(es[lo], oc)
    ELSE LET mid == (lo + hi) \div 2
         IN  Then(encode_terms(es, lo, mid, oc), encode_terms(es, mid + 1, hi, oc))

\* `for (k, v) in x.map.iter() { encode_term(k)?; encode_term(v)?; }`
encode_entries(en, lo, hi, oc) ==
    IF lo > hi THEN W(<<>>)
    ELSE IF lo = hi THEN Then(encode_term(en[lo][1], oc), encode_term(en[lo][2], oc))
    ELSE LET mid == (lo + hi) \div 2
         IN  Then(encode_entries(en, lo, mid, oc), encode_entries(en, mid + 1, hi, oc))

\* AsyncEncoder::encode
encode(t, oc) == Then(W(<<VERSION>>), encode_term(t, oc))

---------------------------------------------------------------------------
(* AsyncDecoder.  A step's result: what it returned (st: Ok, Err, or Panic *)
(* when it unwound), the value it produced (a term, raw bytes, or a        *)
(* sequence of terms), the reader's position afterwards (bytes consumed)   *)
(* and the bytes it dispatched on as tags, in reading order.               *)

R(st, t, raw, items, err, pos) ==
    [st |-> st, term |-> t, raw |-> raw, items |-> items, err |-> err,
     pos |-> pos, tags |-> <<>>]
ROk(t, pos) == R("Ok", t, <<>>, <<>>, NoErr, pos)
RRaw(raw, pos) == R("Ok", NoTerm, raw, <<>>, NoErr, pos)
RItems(items, pos) == R("Ok", NoTerm, <<>>, items, NoErr, pos)
RErr(e, pos) == R("Err", NoTerm, <<>>, <<>>, e, pos)
RPanic(pos) == R("Panic", NoTerm, <<>>, <<>>, NoErr, pos)

\* DecodeError
IoError(kind) == [type |-> "Io", kind |-> kind]
UnsupportedVersion(v) == [type |-> "UnsupportedVersion", version |-> v]
UnknownTag(tag) == [type |-> "UnknownTag", tag |-> tag]
UnexpectedType(t, expected) == [type |-> "UnexpectedType", got |-> t, expected |-> expected]
OutOfRange(n, lo, hi) ==
    [type |-> "OutOfRange", bad |-> n, range_start |-> lo, range_end |-> hi]
NonFiniteFloat == [type |-> "NonFiniteFloat"]

\* `let x = r?; k(x)`: k runs only when r returned Ok
AndThen(r, K(_)) ==
    IF r.st # "Ok" THEN r
    ELSE LET k == K(r) IN [k EXCEPT !.tags = r.tags \o @]

\* reader.read_exact(n bytes): the bytes, or an UnexpectedEof I/O error
\* after the reader has been drained
read_exact(src, pos, n) ==
    IF n <= Len(src) - pos
    THEN RRaw(SubSeq(src, pos + 1, pos + n), pos + n)
    ELSE RErr(IoError("UnexpectedEof"), Len(src))

\* aux::term_into_atom / term_into_pid / term_into_fix_integer, as and_then
term_into(r, type) ==
    IF r.st = "Ok" /\ r.term.type # type
    THEN [r EXCEPT !.st = "Err", !.term = NoTerm,
                   !.err = UnexpectedType(r.term, type)]
    ELSE r

\* term_into_ranged_integer with the end of the range left out
term_into_ranged_integer_exclusive(r, lo, hi) ==
    LET i == term_into(r, "FixInteger")
    IN  IF i.st = "Ok" /\ ~ (lo <= i.term.value /\ i.term.value < hi)
        THEN [i EXCEPT !.st = "Err", !.term = NoTerm,
                       !.err = OutOfRange(i.term.value, lo, hi)]
        ELSE i

\* aux::term_into_ranged_integer(t, range): start <= n && n <= end
term_into_ranged_integer(r, lo, hi) ==
    LET i == term_into(r, "FixInteger")
    IN  IF i.st = "Ok" /\ ~ (lo <= i.term.value /\ i.term.value <= hi)
        THEN [i EXCEPT !.st = "Err", !.term = NoTerm,
                       !.err = OutOfRange(i.term.value, lo, hi)]
        ELSE i

\* str::from_utf8(buf).is_ok()
utf8_cont(b) == 128 <= b /\ b <= 191
utf8_len(b) ==
    CASE b < 128 -> 1
      [] 194 <= b /\ b <= 223 -> 2
      [] 224 <= b /\ b <= 239 -> 3
      [] 240 <= b /\ b <= 244 -> 4
      [] OTHER -> 0
utf8_second_ok(b1, b2) ==
    CASE b1 = 224 -> 160 <= b2 /\ b2 <= 191
      [] b1 = 237 -> 128 <= b2 /\ b2 <= 159
      [] b1 = 240 -> 144 <= b2 /\ b2 <= 191
      [] b1 = 244 -> 128 <= b2 /\ b2 <= 143
      [] OTHER -> utf8_cont(b2)
from_utf8_ok(s) ==
    \A i \in 1..Len(s) :
        IF utf8_cont(s[i]) THEN i > 1 /\ s[i - 1] >= 128
        ELSE LET k == utf8_len(s[i])
             IN  /\ k # 0
                 /\ i + k - 1 <= Len(s)
                 /\ \A j \in 1..(k - 1) : utf8_cont(s[i + j])
                 /\ (k > 1 => utf8_second_ok(s[i], s[i + 1]))
                 /\ (i + k <= Len(s) => ~ utf8_cont(s[i + k]))

\* aux::byte_to_sign(b).is_ok(), and the Sign
byte_to_sign_ok(b) == b \in {0, 1}
byte_to_sign(b) == IF b = 0 THEN "Plus" ELSE "Minus"

\* BigInt::from_bytes_le(sign, bytes): the most significant zero bytes are
\* dropped and a zero magnitude has no sign
from_bytes_le(sign, bytes) ==
    LET top == IF \A i \in 1..Len(bytes) : bytes[i] = 0 THEN 0
               ELSE CHOOSE i \in 1..Len(bytes) :
                        bytes[i] # 0 /\ \A j \in (i + 1)..Len(bytes) : bytes[j] = 0
    IN  BigInteger(IF top = 0 THEN "NoSign" ELSE sign, SubSeq(bytes, 1, top))

RECURSIVE decode_term(_, _, _)
RECURSIVE decode_term_with_tag(_, _, _, _)
RECURSIVE decode_terms(_, _, _, _)
RECURSIVE decode_map_entries(_, _, _, _, _)

\* `for _ in 0..count { elements.push(self.decode_term().await?); }`.
\* The loop of count rounds is its first half followed, from where that one
\* stopped reading, by its second half: the recursion is only as deep as
\* the logarithm of the count.
decode_terms(src, pos, count, oc) ==
    IF count = 0 THEN RItems(<<>>, pos)
    ELSE IF count = 1
    THEN AndThen(decode_term(src, pos, oc), LAMBDA e : RItems(<<e.term>>, e.pos))
    ELSE AndThen(decode_terms(src, pos, count \div 2, oc), LAMBDA first :
         AndThen(decode_terms(src, first.pos, count - count \div 2, oc), LAMBDA rest :
         RItems(first.items \o rest.items, rest.pos)))

\* the loop of decode_map_ext, halved in the same way; the map so far is
\* carried in `entries`
decode_map_entries(src, pos, count, entries, oc) ==
    IF count = 0 THEN RItems(entries, pos)
    ELSE IF count = 1
    THEN AndThen(decode_term(src, pos, oc), LAMBDA k :
         AndThen(decode_term(src, k.pos, oc), LAMBDA v :
         RItems(map_insert(entries, k.term, v.term), v.pos)))
    ELSE AndThen(decode_map_entries(src, pos, count \div 2, entries, oc), LAMBDA first :
         decode_map_entries(src, first.pos, count - count \div 2, first.items, oc))

decode_compressed_term(pos) == RPanic(pos)

decode_nil_ext(pos) == ROk(Nil, pos)

\* decode_string_ext with read in place of read_exact: a short payload is
\* taken as it is
decode_string_ext_lenient(src, pos) ==
    AndThen(read_exact(src, pos, 2), LAMBDA size :
    IF be_u16(size.raw) <= Len(src) - size.pos
    THEN ROk(ByteList(SubSeq(src, size.pos + 1, size.pos + be_u16(size.raw))),
             size.pos + be_u16(size.raw))
    ELSE ROk(ByteList(SubSeq(src, size.pos + 1, Len(src))), Len(src)))

decode_string_ext(src, pos) ==
    AndThen(read_exact(src, pos, 2), LAMBDA size :
    AndThen(read_exact(src, size.pos, be_u16(size.raw)), LAMBDA bytes :
    ROk(ByteList(bytes.raw), bytes.pos)))

decode_list_ext(src, pos, oc) ==
    AndThen(read_exact(src, pos, 4), LAMBDA count :
    AndThen(decode_terms(src, count.pos, be_u32(count.raw), oc), LAMBDA elements :
    AndThen(decode_term(src, elements.pos, oc), LAMBDA last :
    IF is_nil(last.term)
    THEN ROk(List(elements.items), last.pos)
    ELSE ROk(ImproperList(elements.items, last.term), last.pos))))

decode_small_tuple_ext(src, pos, oc) ==
    AndThen(read_exact(src, pos, 1), LAMBDA count :
    AndThen(decode_terms(src, count.pos, count.raw[1], oc), LAMBDA elements :
    ROk(Tuple(elements.items), elements.pos)))

decode_large_tuple_ext(src, pos, oc) ==
    AndThen(read_exact(src, pos, 4), LAMBDA count :
    AndThen(decode_terms(src, count.pos, be_u32(count.raw), oc), LAMBDA elements :
    ROk(Tuple(elements.items), elements.pos)))

decode_map_ext(src, pos, oc) ==
    AndThen(read_exact(src, pos, 4), LAMBDA count :
    AndThen(decode_map_entries(src, count.pos, be_u32(count.raw), <<>>, oc), LAMBDA map :
    ROk(Map(map.items), map.pos)))

decode_binary_ext(src, pos) ==
    AndThen(read_exact(src, pos, 4), LAMBDA size :
    AndThen(read_exact(src, size.pos, be_u32(size.raw)), LAMBDA buf :
    ROk(Binary(buf.raw), buf.pos)))

decode_bit_binary_ext(src, pos, oc) ==
    AndThen(read_exact(src, pos, 4), LAMBDA size :
    AndThen(read_exact(src, size.pos, 1), LAMBDA tail :
    AndThen(read_exact(src, tail.pos, be_u32(size.raw)), LAMBDA buf :
    LET n == Len(buf.raw)
        tail_bits_size == tail.raw[1]
    IN  IF n = 0 THEN ROk(BitBinary(<<>>, tail_bits_size), buf.pos)
        ELSE IF shift_panics(tail_bits_size, oc) THEN RPanic(buf.pos)
        ELSE ROk(BitBinary(SubSeq(buf.raw, 1, n - 1)
                             \o <<shr_u8(buf.raw[n], shift_amount(tail_bits_size))>>,
                           tail_bits_size), buf.pos))))

\* decode_term().and_then(term_into_atom)?
decode_atom_term(src, pos, oc) == term_into(decode_term(src, pos, oc), "Atom")

decode_pid_ext(src, pos, oc) ==
    AndThen(decode_atom_term(src, pos, oc), LAMBDA node :
    AndThen(read_exact(src, node.pos, 4), LAMBDA id :
    AndThen(read_exact(src, id.pos, 4), LAMBDA serial :
    AndThen(read_exact(src, serial.pos, 1), LAMBDA creation :
    ROk(Pid(node.term, id.raw, serial.raw, word_of_u8(creation.raw[1])), creation.pos)))))

decode_new_pid_ext(src, pos, oc) ==
    AndThen(decode_atom_term(src, pos, oc), LAMBDA node :
    AndThen(read_exact(src, node.pos, 4), LAMBDA id :
    AndThen(read_exact(src, id.pos, 4), LAMBDA serial :
    AndThen(read_exact(src, serial.pos, 4), LAMBDA creation :
    ROk(Pid(node.term, id.raw, serial.raw, creation.raw), creation.pos)))))

decode_port_ext(src, pos, oc) ==
    AndThen(decode_atom_term(src, pos, oc), LAMBDA node :
    AndThen(read_exact(src, node.pos, 4), LAMBDA id :
    AndThen(read_exact(src, id.pos, 1), LAMBDA creation :
    ROk(Port(node.term, u64_of_word(id.raw), word_of_u8(creation.raw[1])), creation.pos))))

decode_new_port_ext(src, pos, oc) ==
    AndThen(decode_atom_term(src, pos, oc), LAMBDA node :
    AndThen(read_exact(src, node.pos, 4), LAMBDA id :
    AndThen(read_exact(src, id.pos, 4), LAMBDA creation :
    ROk(Port(node.term, u64_of_word(id.raw), creation.raw), creation.pos))))

decode_v4_port_ext(src, pos, oc) ==
    AndThen(decode_atom_term(src, pos, oc), LAMBDA node :
    AndThen(read_exact(src, node.pos, 8), LAMBDA id :
    AndThen(read_exact(src, id.pos, 4), LAMBDA creation :
    ROk(Port(node.term, id.raw, creation.raw), creation.pos))))

\* `for _ in 0..id_count { id.push(self.reader.read_u32().await?); }`
read_words(src, pos, count) ==
    AndThen(read_exact(src, pos, 4 * count), LAMBDA w :
    RItems(Tup([i \in 1..count |-> SubSeq(w.raw, 4 * i - 3, 4 * i)], count), w.pos))

decode_reference_ext(src, pos, oc) ==
    AndThen(decode_atom_term(src, pos, oc), LAMBDA node :
    AndThen(read_exact(src, node.pos, 4), LAMBDA id :
    AndThen(read_exact(src, id.pos, 1), LAMBDA creation :
    ROk(Reference(node.term, <<id.raw>>, word_of_u8(creation.raw[1])), creation.pos))))

decode_new_reference_ext(src, pos, oc) ==
    AndThen(read_exact(src, pos, 2), LAMBDA id_count :
    AndThen(decode_atom_term(src, id_count.pos, oc), LAMBDA node :
    AndThen(read_exact(src, node.pos, 1), LAMBDA creation :
    AndThen(read_words(src, creation.pos, be_u16(id_count.raw)), LAMBDA id :
    ROk(Reference(node.term, id.items, word_of_u8(creation.raw[1])), id.pos)))))

decode_newer_reference_ext(src, pos, oc) ==
    AndThen(read_exact(src, pos, 2), LAMBDA id_count :
    AndThen(decode_atom_term(src, id_count.pos, oc), LAMBDA node :
    AndThen(read_exact(src, node.pos, 4), LAMBDA creation :
    AndThen(read_words(src, creation.pos, be_u16(id_count.raw)), LAMBDA id :
    ROk(Reference(node.term, id.items, creation.raw), id.pos)))))

decode_export_ext(src, pos, oc) ==
    AndThen(decode_atom_term(src, pos, oc), LAMBDA module :
    AndThen(decode_atom_term(src, module.pos, oc), LAMBDA function :
    AndThen(term_into_ranged_integer(decode_term(src, function.pos, oc), 0, U8_MAX),
            LAMBDA arity :
    ROk(ExternalFun(module.term, function.term, u8_of(arity.term.value)), arity.pos))))

decode_fun_ext(src, pos, oc) ==
    AndThen(read_exact(src, pos, 4), LAMBDA num_free :
    AndThen(term_into(decode_term(src, num_free.pos, oc), "Pid"), LAMBDA pid :
    AndThen(decode_atom_term(src, pid.pos, oc), LAMBDA module :
    AndThen(term_into(decode_term(src, module.pos, oc), "FixInteger"), LAMBDA index :
    AndThen(term_into(decode_term(src, index.pos, oc), "FixInteger"), LAMBDA uniq :
    AndThen(decode_terms(src, uniq.pos, be_u32(num_free.raw), oc), LAMBDA vars_ :
    ROk(InternalFunOld(module.term, pid.term, vars_.items,
                       index.term.value, uniq.term.value), vars_.pos)))))))

decode_new_fun_ext(src, pos, oc) ==
    AndThen(read_exact(src, pos, 4), LAMBDA size :
    AndThen(read_exact(src, size.pos, 1), LAMBDA arity :
    AndThen(read_exact(src, arity.pos, 16), LAMBDA uniq :
    AndThen(read_exact(src, uniq.pos, 4), LAMBDA index :
    AndThen(read_exact(src, index.pos, 4), LAMBDA num_free :
    AndThen(decode_atom_term(src, num_free.pos, oc), LAMBDA module :
    AndThen(term_into(decode_term(src, module.pos, oc), "FixInteger"), LAMBDA old_index :
    AndThen(term_into(decode_term(src, old_index.pos, oc), "FixInteger"), LAMBDA old_uniq :
    AndThen(term_into(decode_term(src, old_uniq.pos, oc), "Pid"), LAMBDA pid :
    AndThen(decode_terms(src, pid.pos, be_u32(num_free.raw), oc), LAMBDA vars_ :
    ROk(InternalFunNew(module.term, arity.raw[1], pid.term, vars_.items, index.raw,
                       uniq.raw, old_index.term.value, old_uniq.term.value),
        vars_.pos)))))))))))

decode_new_float_ext(src, pos) ==
    AndThen(read_exact(src, pos, 8), LAMBDA value :
    IF is_finite(value.raw) THEN ROk(Float(value.raw), value.pos)
    ELSE RErr(NonFiniteFloat, value.pos))

\* The legacy float: 31 bytes of text.  What parse::<f32> makes of the text
\* is outside the model: a source that holds the 31 bytes ends "Unmodelled".
decode_float_ext(src, pos) ==
    AndThen(read_exact(src, pos, 31), LAMBDA buf :
    R("Unmodelled", NoTerm, <<>>, <<>>, NoErr, buf.pos))

decode_small_integer_ext(src, pos) ==
    AndThen(read_exact(src, pos, 1), LAMBDA value :
    ROk(FixInteger(value.raw[1]), value.pos))

decode_integer_ext(src, pos) ==
    AndThen(read_exact(src, pos, 4), LAMBDA value :
    ROk(FixInteger(be_i32(value.raw)), value.pos))

\* the body the two big-integer arms share after the count is read
decode_big(src, count) ==
    AndThen(read_exact(src, count.pos, 1), LAMBDA sign :
    AndThen(read_exact(src, sign.pos, IF Len(count.raw) = 1 THEN count.raw[1]
                                      ELSE be_u32(count.raw)), LAMBDA buf :
    IF byte_to_sign_ok(sign.raw[1])
    THEN ROk(from_bytes_le(byte_to_sign(sign.raw[1]), buf.raw), buf.pos)
    ELSE RErr(IoError("InvalidData"), buf.pos)))

decode_small_big_ext(src, pos) ==
    AndThen(read_exact(src, pos, 1), LAMBDA count : decode_big(src, count))

decode_large_big_ext(src, pos) ==
    AndThen(read_exact(src, pos, 4), LAMBDA count : decode_big(src, count))

\* the body the four atom arms share after the length is read: latin1 is
\* aux::latin1_bytes_to_string (an Other I/O error), else str::from_utf8
\* (an InvalidData I/O error)
decode_atom_name(src, len, latin1) ==
    AndThen(read_exact(src, len.pos, IF Len(len.raw) = 1 THEN len.raw[1]
                                     ELSE be_u16(len.raw)), LAMBDA buf :
    IF from_utf8_ok(buf.raw) THEN ROk(Atom(buf.raw), buf.pos)
    ELSE RErr(IoError(IF latin1 THEN "Other" ELSE "InvalidData"), buf.pos))

decode_atom_ext(src, pos) ==
    AndThen(read_exact(src, pos, 2), LAMBDA len : decode_atom_name(src, len, TRUE))
decode_small_atom_ext(src, pos) ==
    AndThen(read_exact(src, pos, 1), LAMBDA len : decode_atom_name(src, len, TRUE))
decode_atom_utf8_ext(src, pos) ==
    AndThen(read_exact(src, pos, 2), LAMBDA len : decode_atom_name(src, len, FALSE))
decode_small_atom_utf8_ext(src, pos) ==
    AndThen(read_exact(src, pos, 1), LAMBDA len : decode_atom_name(src, len, FALSE))

\* the catch-all arm reporting the tag of the enclosing term's kind
unknown_tag_fixed(tag, pos) == RErr(UnknownTag(0), pos)

\* `_ => Err(DecodeError::UnknownTag { tag })`
unknown_tag(tag, pos) == RErr(UnknownTag(tag), pos)

decode_term_with_tag(src, pos, tag, oc) ==
    CASE tag = NEW_FLOAT_EXT -> decode_new_float_ext(src, pos)
      [] tag = BIT_BINARY_EXT -> decode_bit_binary_ext(src, pos, oc)
      [] tag = ATOM_CACHE_REF -> RPanic(pos)
      [] tag = SMALL_INTEGER_EXT -> decode_small_integer_ext(src, pos)
      [] tag = INTEGER_EXT -> decode_integer_ext(src, pos)
      [] tag = FLOAT_EXT -> decode_float_ext(src, pos)
      [] tag = ATOM_EXT -> decode_atom_ext(src, pos)
      [] tag = REFERENCE_EXT -> decode_reference_ext(src, pos, oc)
      [] tag = PORT_EXT -> decode_port_ext(src, pos, oc)
      [] tag = NEW_PORT_EXT -> decode_new_port_ext(src, pos, oc)
      [] tag = V4_PORT_EXT -> decode_v4_port_ext(src, pos, oc)
      [] tag = PID_EXT -> decode_pid_ext(src, pos, oc)
      [] tag = NEW_PID_EXT -> decode_new_pid_ext(src, pos, oc)
      [] tag = SMALL_TUPLE_EXT -> decode_small_tuple_ext(src, pos, oc)
      [] tag = LARGE_TUPLE_EXT -> decode_large_tuple_ext(src, pos, oc)
      [] tag = NIL_EXT -> decode_nil_ext(pos)
      [] tag = STRING_EXT -> decode_string_ext(src, pos)
      [] tag = LIST_EXT -> decode_list_ext(src, pos, oc)
      [] tag = BINARY_EXT -> decode_binary_ext(src, pos)
      [] tag = SMALL_BIG_EXT -> decode_small_big_ext(src, pos)
      [] tag = LARGE_BIG_EXT -> decode_large_big_ext(src, pos)
      [] tag = NEW_FUN_EXT -> decode_new_fun_ext(src, pos, oc)
      [] tag = EXPORT_EXT -> decode_export_ext(src, pos, oc)
      [] tag = NEW_REFERENCE_EXT -> decode_new_reference_ext(src, pos, oc)
      [] tag = SMALL_ATOM_EXT -> decode_small_atom_ext(src, pos)
      [] tag = MAP_EXT -> decode_map_ext(src, pos, oc)
      [] tag = FUN_EXT -> decode_fun_ext(src, pos, oc)
      [] tag = ATOM_UTF8_EXT -> decode_atom_utf8_ext(src, pos)
      [] tag = SMALL_ATOM_UTF8_EXT -> decode_small_atom_utf8_ext(src, pos)
      [] tag = NEWER_REFERENCE_EXT -> decode_newer_reference_ext(src, pos, oc)
      [] OTHER -> unknown_tag(tag, pos)

\* a tag byte was read and dispatched on: it heads the tags of the result
Tagged(tag, r) == [r EXCEPT !.tags = <<tag>> \o @]

decode_term(src, pos, oc) ==
    AndThen(read_exact(src, pos, 1), LAMBDA tag :
    Tagged(tag.raw[1], decode_term_with_tag(src, tag.pos, tag.raw[1], oc)))

\* decode with the tag read before the version is checked
decode_reads_tag_first(src, oc) ==
    AndThen(read_exact(src, 0, 1), LAMBDA version :
    AndThen(read_exact(src, version.pos, 1), LAMBDA tag :
    IF version.raw[1] # VERSION
    THEN RErr(UnsupportedVersion(version.raw[1]), tag.pos)
    ELSE Tagged(tag.raw[1],
                CASE tag.raw[1] = COMPRESSED_TERM -> decode_compressed_term(tag.pos)
                  [] tag.raw[1] = DISTRIBUTION_HEADER -> RPanic(tag.pos)
                  [] OTHER -> decode_term_with_tag(src, tag.pos, tag.raw[1], oc))))

\* AsyncDecoder::decode
decode(src, oc) ==
    AndThen(read_exact(src, 0, 1), LAMBDA version :
    IF version.raw[1] # VERSION
    THEN RErr(UnsupportedVersion(version.raw[1]), version.pos)
    ELSE AndThen(read_exact(src, version.pos, 1), LAMBDA tag :
         Tagged(tag.raw[1],
                CASE tag.raw[1] = COMPRESSED_TERM -> decode_compressed_term(tag.pos)
                  [] tag.raw[1] = DISTRIBUTION_HEADER -> RPanic(tag.pos)
                  [] OTHER -> decode_term_with_tag(src, tag.pos, tag.raw[1], oc))))

---------------------------------------------------------------------------
(* The terms handed to the encoder and the byte strings handed to the      *)
(* decoder.                                                                *)

\* bounds of the model
MaxElems == 2        \* elements of a composite term of the pool
MaxTamperLen == 14   \* longest source that is truncated or tampered with

\* all sequences over S of length at most n
RECURSIVE SeqsUpTo(_, _)
SeqsUpTo(S, n) ==
    IF n = 0 THEN {<<>>}
    ELSE LET shorter == SeqsUpTo(S, n - 1)
         IN  shorter \cup { Append(q, x) : q \in {r \in shorter : Len(r) = n - 1}, x \in S }

Fill(n, x) == Tup([i \in 1..n |-> x], n)

\* words
W0 == <<0, 0, 0, 0>>
W1 == <<0, 0, 0, 1>>
WBig == <<255, 0, 0, 7>>

AtomA == Atom(<<97>>)
AtomHoge == Atom(<<104, 111, 103, 101>>)
AtomEAcute == Atom(<<195, 169>>)
AtomMax == Atom(Fill(U16_MAX, 97))
AtomTooLong == Atom(Fill(U16_MAX + 1, 97))

PoolAtoms == {Atom(<<>>), AtomA, AtomHoge, AtomEAcute, AtomMax, AtomTooLong}

PoolIntegers ==
    { FixInteger(v) : v \in {0, 1, 5, 255, 256, 1234, -1, -1234, 2147483647, -2147483647 - 1} }

PoolBigIntegers ==
    { BigInteger("NoSign", <<>>), BigInteger("Plus", <<1>>), BigInteger("Minus", <<1>>),
      BigInteger("Plus", <<0, 0, 0, 0, 1>>), BigInteger("Minus", Fill(U8_MAX, 255)),
      BigInteger("Plus", Fill(U8_MAX + 1, 1)) }

\* 0.0, 1.0, -2.5 and the largest finite double
PoolFloats ==
    { Float(<<0, 0, 0, 0, 0, 0, 0, 0>>), Float(<<63, 240, 0, 0, 0, 0, 0, 0>>),
      Float(<<192, 4, 0, 0, 0, 0, 0, 0>>), Float(<<127, 239, 255, 255, 255, 255, 255, 255>>) }

PidA == Pid(AtomA, W1, W0, W1)
PoolPids == { PidA, Pid(AtomEAcute, WBig, W1, WBig), Pid(AtomTooLong, W1, W0, W1) }

PoolPorts ==
    { Port(AtomA, W0 \o W1, W1), Port(AtomA, W0 \o WBig, WBig),
      Port(AtomA, W1 \o W0, W1), Port(AtomTooLong, W0 \o W1, W1) }

PoolReferences ==
    { Reference(AtomA, <<>>, W1), Reference(AtomA, <<W1>>, W1),
      Reference(AtomEAcute, <<W1, W0, WBig>>, WBig),
      Reference(AtomA, Fill(U16_MAX, W1), W1),
      Reference(AtomA, Fill(U16_MAX + 1, W1), W1),
      Reference(AtomTooLong, <<W1>>, W1),
      Reference(AtomTooLong, Fill(U16_MAX + 1, W1), W1) }

PoolExternalFuns ==
    { ExternalFun(AtomA, AtomHoge, 0), ExternalFun(AtomA, AtomA, 2),
      ExternalFun(AtomA, AtomA, U8_MAX), ExternalFun(AtomA, AtomTooLong, 1) }

PoolBinaries == { Binary(<<>>), Binary(<<1>>), Binary(<<104, 111, 103, 101>>) }

\* every tail_bits_size a u8 field is tried with, also outside 1..8
PoolBitBinaries ==
    { BitBinary(b, n) : b \in {<<>>, <<15>>, <<240>>, <<7, 255>>}, n \in {0, 1, 4, 7, 8, 9} }

PoolByteLists ==
    { ByteList(<<>>), ByteList(<<1>>), ByteList(<<104, 105>>), ByteList(<<0, 255>>),
      ByteList(Fill(U16_MAX, 7)), ByteList(Fill(U16_MAX + 1, 7)) }

\* elements of the composite terms
ListElems == { FixInteger(0), FixInteger(255), FixInteger(256), FixInteger(-1), AtomA, Nil }
FewElems == { FixInteger(1), AtomA, Nil }

PoolLists ==
    { List(es) : es \in SeqsUpTo(ListElems, MaxElems) }
    \cup { List(Fill(U16_MAX, FixInteger(7))),
           List(<<FixInteger(1), AtomTooLong>>), List(<<List(<<AtomA>>), Nil>>),
           List(<<ByteList(<<1>>)>>), List(<<Tuple(<<Nil>>)>>) }

PoolImproperLists ==
    { ImproperList(es, last) : es \in SeqsUpTo(FewElems, MaxElems),
                               last \in {FixInteger(1), AtomA, Tuple(<<>>)} }

PoolTuples ==
    { Tuple(es) : es \in SeqsUpTo(FewElems, MaxElems) }
    \cup { Tuple(Fill(U8_MAX, FixInteger(1))), Tuple(Fill(U8_MAX + 1, FixInteger(1))),
           Tuple(<<FixInteger(1), Atom(<<111, 110, 101>>)>>),
           Tuple(<<AtomTooLong>>), Tuple(<<Tuple(<<AtomA>>), List(<<AtomA>>)>>),
           Tuple(<<Reference(AtomA, Fill(U16_MAX + 1, W1), W1), AtomTooLong>>) }

\* Maps in every iteration order: sequences of entries with distinct keys
PoolMaps ==
    { Map(en) : en \in { q \in SeqsUpTo({AtomA, FixInteger(1), FixInteger(2)}
                                        \X {Nil, FixInteger(1)}, MaxElems) :
                           \A i, j \in 1..Len(q) : i # j => q[i][1] # q[j][1] } }
    \cup { Map(<<<<AtomA, Map(<<<<FixInteger(1), AtomA>>>>)>>>>),
           Map(<<<<AtomA, AtomTooLong>>>>) }

FreeVars == SeqsUpTo({FixInteger(1), AtomA}, MaxElems)
Uniq16 == <<1, 2, 3, 4, 5, 6, 7, 8, 9, 10, 11, 12, 13, 14, 15, 16>>

PoolInternalFuns ==
    { InternalFunOld(AtomA, PidA, fv, 1, -1) : fv \in FreeVars }
    \cup { InternalFunNew(AtomA, 2, PidA, fv, W1, Uniq16, 1, 256) : fv \in FreeVars }
    \cup { InternalFunOld(AtomTooLong, PidA, <<>>, 1, 1),
           InternalFunNew(AtomTooLong, 2, PidA, <<>>, W1, Uniq16, 1, 1),
           InternalFunNew(AtomA, 2, Pid(AtomTooLong, W1, W0, W1), <<>>, W1, Uniq16, 1, 1),
           InternalFunNew(AtomA, 2, PidA, <<AtomTooLong>>, W1, Uniq16, 1, 1),
           InternalFunNew(AtomA, 0, PidA, <<BitBinary(<<1>>, 0)>>, W0, Fill(16, 0), 0, 0) }

Terms ==
    PoolAtoms \cup PoolIntegers \cup PoolBigIntegers \cup PoolFloats \cup PoolPids
    \cup PoolPorts \cup PoolReferences \cup PoolExternalFuns \cup PoolBinaries
    \cup PoolBitBinaries \cup PoolByteLists \cup PoolLists \cup PoolImproperLists
    \cup PoolTuples \cup PoolMaps \cup PoolInternalFuns

\* bytes written over a byte of the source
TamperBytes == {0, 2, DISTRIBUTION_HEADER, COMPRESSED_TERM, ATOM_CACHE_REF, 255}

\* sources that do not come from the encoder: the test vectors of
\* tests/lib.rs and the layouts only the decoder knows
RawSources ==
    { <<>>,
      <<131, 97, 5>>,
      <<131, 98, 0, 0, 4, 210>>,
      <<131, 98, 255, 255, 251, 46>>,
      <<131, 98, 0, 0, 0, 5>>,
      <<131, 100, 0, 4, 104, 111, 103, 101>>,
      <<131, 115, 4, 104, 111, 103, 101>>,
      <<131, 118, 0, 4, 104, 111, 103, 101>>,
      <<131, 119, 4, 104, 111, 103, 101>>,
      <<131, 104, 2, 97, 1, 100, 0, 3, 111, 110, 101>>,
      <<131, 105, 0, 0, 0, 2, 97, 1, 100, 0, 3, 111, 110, 101>>,
      <<131, 106>>,
      <<131, 109, 0, 0, 0, 4, 104, 111, 103, 101>>,
      <<131, 108, 0, 0, 0, 0, 106>>,
      <<131, 108, 0, 0, 0, 1, 106, 106>>,
      <<131, 108, 0, 0, 0, 1, 97, 1, 108, 0, 0, 0, 0, 106>>,
      <<131, 104, 1, 108, 0, 0, 0, 0, 106>>,
      <<131, 103, 100, 0, 1, 97, 0, 0, 0, 1, 0, 0, 0, 0, 3>>,
      <<131, 102, 115, 1, 97, 0, 0, 0, 1, 3>>,
      <<131, 101, 119, 1, 97, 0, 0, 0, 1, 3>>,
      <<131, 114, 0, 2, 100, 0, 1, 97, 3, 0, 0, 0, 1, 0, 0, 0, 0>>,
      <<131, 77, 0, 0, 0, 1, 4, 240>>,
      <<131, 110, 1, 2, 1>>,
      <<131, 111, 0, 0, 0, 2, 1, 0, 1>>,
      <<131, 70, 127, 240, 0, 0, 0, 0, 0, 0>>,
      <<131, 113, 100, 0, 1, 97, 100, 0, 1, 97, 98, 0, 0, 1, 0>>,
      <<131, 113, 100, 0, 1, 97, 100, 0, 1, 97, 98, 0, 0, 0, 255>>,
      <<131, 113, 100, 0, 1, 97, 100, 0, 1, 97, 98, 255, 255, 255, 255>>,
      <<131, 113, 100, 0, 1, 97, 100, 0, 1, 97, 100, 0, 1, 97>>,
      <<131, 116, 0, 0, 0, 2, 97, 1, 97, 2, 97, 1, 97, 3>>,
      <<131, 118, 0, 2, 195, 40>>,
      <<131, 100, 0, 1, 233>>,
      <<131, 108, 255, 255, 255, 255>>,
      <<130, 97, 5>> }

---------------------------------------------------------------------------
(* The state machine.  An encoder and a decoder are each used for one      *)
(* call (encode and decode take self by value).                            *)

\* the two tasks of the concurrent runs, and a task that has made no call
Ids == {"A", "B"}
NoCall ==
    [kind |-> "none", oc |-> FALSE, st |-> "None", err |-> NoErr, mixed |-> FALSE,
     src |-> <<>>, cur |-> 0, stack |-> <<>>, val |-> NoTerm,
     term |-> NoTerm, sink |-> <<>>, todo |-> <<>>]

NoResult == [st |-> "None", term |-> NoTerm, err |-> NoErr, pos |-> 0, tags |-> <<>>]

Init ==
    /\ term = NoTerm
    /\ sink = <<>>
    /\ enc_result = [st |-> "None", err |-> NoErr]
    /\ wire = <<>>
    /\ source = <<>>
    /\ origin = "none"
    /\ dec_result = NoResult
    /\ calls = [i \in Ids |-> NoCall]
    /\ scratch = [i \in Ids |-> <<>>]

\* AsyncEncoder::new(sink).encode(&t), under either build profile
Encode ==
    /\ enc_result.st = "None"
    /\ origin = "none"
    /\ \E t \in Terms, oc \in BOOLEAN :
          LET r == encode(t, oc)
          IN  /\ term' = t
              /\ sink' = r.out
              /\ enc_result' = [st |-> r.st, err |-> r.err]
    /\ UNCHANGED <<wire, source, origin, dec_result, calls, scratch>>

\* the bytes of the sink reach a decoder's reader
Deliver ==
    /\ enc_result.st # "None"
    /\ origin = "none"
    /\ wire' = sink
    /\ source' = sink
    /\ origin' = "whole"
    /\ UNCHANGED <<term, sink, enc_result, dec_result, calls, scratch>>

\* bytes from elsewhere reach a decoder's reader
Receive ==
    /\ enc_result.st = "None"
    /\ origin = "none"
    /\ \E bs \in RawSources : wire' = bs /\ source' = bs
    /\ origin' = "raw"
    /\ UNCHANGED <<term, sink, enc_result, dec_result, calls, scratch>>

\* the stream ends early
Truncate ==
    /\ origin \in {"whole", "raw"}
    /\ dec_result.st = "None"
    /\ Len(source) <= MaxTamperLen
    /\ \E n \in 0..(Len(source) - 1) : source' = SubSeq(source, 1, n)
    /\ origin' = "prefix"
    /\ UNCHANGED <<term, sink, enc_result, wire, dec_result, calls, scratch>>

\* one byte of the stream is another byte
Tamper ==
    /\ origin \in {"whole", "raw"}
    /\ dec_result.st = "None"
    /\ Len(source) <= MaxTamperLen
    /\ \E i \in 1..Len(source), b \in TamperBytes :
          /\ b # source[i]
          /\ source' = [source EXCEPT ![i] = b]
    /\ origin' = "tampered"
    /\ UNCHANGED <<term, sink, enc_result, wire, dec_result, calls, scratch>>

\* AsyncDecoder::new(source).decode(), under either build profile
Decode ==
    /\ origin # "none"
    /\ dec_result.st = "None"
    /\ \E oc \in BOOLEAN :
          LET r == decode(source, oc)
          IN  dec_result' = [st |-> r.st, term |-> r.term, err |-> r.err,
                             pos |-> r.pos, tags |-> r.tags]
    /\ UNCHANGED <<term, sink, enc_result, wire, source, origin, calls, scratch>>

Next == Encode \/ Deliver \/ Receive \/ Truncate \/ Tamper \/ Decode

Spec == Init /\ [][Next]_vars

\* every decode of the model ends inside the modelled part of the decoder
ModelCovers == dec_result.st # "Unmodelled"

---------------------------------------------------------------------------
(* Two calls at once.  Each call is a future that gives way at its reads   *)
(* and writes: a read or write of several bytes can be left after any of   *)
(* them, so a step moves one byte.  What the code does between two awaits  *)
(* belongs to the step of the byte before.  The arms that use the          *)
(* decoder's scratch buffer (atoms, big integers) and the tuple loop are   *)
(* followed byte by byte; the other arms run to their end in one step.     *)

Other(i) == IF i = "A" THEN "B" ELSE "A"

\* one scratch buffer for every decoder
buf_owner_shared(i) == "A"

\* `buf: Vec<u8>` is a field of the AsyncDecoder, which decode takes by value
buf_owner(i) == i

\* self.buf.resize(n, 0)
resize(buf, n) ==
    IF n <= Len(buf) THEN SubSeq(buf, 1, n) ELSE buf \o Fill(n - Len(buf), 0)

\* read_exact(&mut self.buf) stores the k-th byte read (k <= Len(buf): the
\* buffer was resized to the length of the read)
put(buf, k, b) ==
    IF k <= Len(buf)
    THEN SubSeq(buf, 1, k - 1) \o <<b>> \o SubSeq(buf, k + 1, Len(buf))
    ELSE buf \o <<b>>

\* where a decode call stands: a read of `want` bytes of which `got` have
\* arrived, or the loop of a tuple with `want` elements to go
Frame(op, want, arg) == [op |-> op, want |-> want, got |-> <<>>, arg |-> arg, acc |-> <<>>]
FillOps == {"name", "digits"}

push(m, f) == [m EXCEPT !.stack = Append(@, f)]
pop(m) == [m EXCEPT !.stack = SubSeq(@, 1, Len(@) - 1)]
top(m) == m.stack[Len(m.stack)]

\* a `?` or a panic ends the call
fail(m, st, err, pos) == [m EXCEPT !.st = st, !.err = err, !.cur = pos, !.stack = <<>>]

\* a decode_term call returns v: to the caller of decode, or to the loop of
\* the tuple around it
give(m, v) ==
    IF m.stack = <<>> THEN [m EXCEPT !.st = "Ok", !.val = v]
    ELSE [m EXCEPT !.stack[Len(m.stack)] =
                       [@ EXCEPT !.acc = Append(@, v), !.want = @ - 1]]

\* the match of decode / decode_term_with_tag on the tag just read
on_tag(m, tag, at_top, src, oc) ==
    CASE at_top /\ tag \in {COMPRESSED_TERM, DISTRIBUTION_HEADER} ->
           fail(m, "Panic", NoErr, m.cur)
      [] tag \in {ATOM_EXT, ATOM_UTF8_EXT} -> push(m, Frame("len", 2, tag))
      [] tag \in {SMALL_ATOM_EXT, SMALL_ATOM_UTF8_EXT} -> push(m, Frame("len", 1, tag))
      [] tag = SMALL_BIG_EXT -> push(m, Frame("count", 1, tag))
      [] tag = LARGE_BIG_EXT -> push(m, Frame("count", 4, tag))
      [] tag = SMALL_TUPLE_EXT -> push(m, Frame("arity", 1, tag))
      [] OTHER ->
           LET r == decode_term_with_tag(src, m.cur, tag, oc)
           IN  IF r.st = "Ok" THEN give([m EXCEPT !.cur = r.pos], r.term)
               ELSE fail(m, r.st, r.err, r.pos)

\* the code after a read that is complete; f is the read, m the call
\* without it
on_read(m, f, src, oc) ==
    CASE f.op = "version" ->
           IF f.got[1] # VERSION
           THEN fail(m, "Err", UnsupportedVersion(f.got[1]), m.cur)
           ELSE push(m, Frame("tag", 1, 0))
      [] f.op = "tag" -> on_tag(m, f.got[1], f.arg = 0, src, oc)
      [] f.op = "len" ->
           LET n == IF f.want = 1 THEN f.got[1] ELSE be_u16(f.got)
           IN  push([m EXCEPT !.buf = resize(@, n)], Frame("name", n, f.arg))
      [] f.op = "name" ->
           IF from_utf8_ok(m.buf) THEN give(m, Atom(m.buf))
           ELSE fail(m, "Err",
                     IoError(IF f.arg \in {ATOM_EXT, SMALL_ATOM_EXT}
                             THEN "Other" ELSE "InvalidData"), m.cur)
      [] f.op = "count" ->
           push(m, Frame("sign", 1, IF f.want = 1 THEN f.got[1] ELSE be_u32(f.got)))
      [] f.op = "sign" ->
           push([m EXCEPT !.buf = resize(@, f.arg)], Frame("digits", f.arg, f.got[1]))
      [] f.op = "digits" ->
           IF byte_to_sign_ok(f.arg)
           THEN give(m, from_bytes_le(byte_to_sign(f.arg), m.buf))
           ELSE fail(m, "Err", IoError("InvalidData"), m.cur)
      [] f.op = "arity" -> push(m, Frame("elems", f.got[1], 0))

\* the call runs on until it waits for a byte or returns
RECURSIVE settle(_, _, _)
settle(m, src, oc) ==
    IF m.st # "Run" THEN m
    ELSE LET f == top(m)
         IN  IF f.op = "elems"
             THEN IF f.want = 0 THEN settle(give(pop(m), Tuple(f.acc)), src, oc)
                  ELSE push(m, Frame("tag", 1, 1))
             ELSE IF Len(f.got) < f.want THEN m
             ELSE settle(on_read(pop(m), f, src, oc), src, oc)

\* the streams and terms of the concurrent runs
ConcSources ==
    { <<>>,
      <<130, 97, 5>>,
      <<131, 80>>,
      <<131, 100, 0, 4, 104, 111, 103, 101>>,
      <<131, 100, 0, 4, 104, 111>>,
      <<131, 115, 2, 111, 110>>,
      <<131, 118, 0, 2, 195, 40>>,
      <<131, 119, 0>>,
      <<131, 110, 2, 1, 1, 2>>,
      <<131, 110, 1, 2, 1>>,
      <<131, 111, 0, 0, 0, 2, 0, 3, 4>>,
      <<131, 104, 2, 97, 1, 115, 1, 97>>,
      <<131, 104, 1, 104, 0>>,
      <<131, 104, 1, 2>>,
      <<131, 109, 0, 0, 0, 1, 7>>,
      <<131, 77, 0, 0, 0, 1, 0, 15>> }

ConcTerms ==
    { AtomA, FixInteger(256), Tuple(<<AtomA, Nil>>), List(<<AtomA, FixInteger(1)>>),
      List(<<FixInteger(1), FixInteger(-1)>>), Tuple(<<Tuple(<<>>), ByteList(<<1>>)>>),
      BitBinary(<<15>>, 0), Tuple(<<FixInteger(1), AtomTooLong>>) }

\* AsyncDecoder::new(reader).decode() up to its first read
StartDecode(i) ==
    /\ calls[i].kind = "none"
    /\ \E src \in ConcSources, oc \in BOOLEAN :
          calls' = [calls EXCEPT ![i] =
                       [NoCall EXCEPT !.kind = "decode", !.oc = oc, !.st = "Run",
                                      !.src = src, !.stack = <<Frame("version", 1, 0)>>]]
    /\ UNCHANGED <<term, sink, enc_result, wire, source, origin, dec_result, scratch>>

\* one byte of call i's reader arrives
DecodeStep(i) ==
    /\ calls[i].kind = "decode"
    /\ calls[i].st = "Run"
    /\ LET c == calls[i]
           f == c.stack[Len(c.stack)]
           o == calls[Other(i)]
           own == buf_owner(i)
       IN  IF c.cur = Len(c.src)
           THEN /\ calls' = [calls EXCEPT ![i] =
                                [c EXCEPT !.st = "Err", !.err = IoError("UnexpectedEof"),
                                          !.stack = <<>>]]
                /\ UNCHANGED scratch
           ELSE LET b == c.src[c.cur + 1]
                    filled == IF f.op \in FillOps
                              THEN put(scratch[own], Len(f.got) + 1, b)
                              ELSE scratch[own]
                    m == settle([stack |-> [c.stack EXCEPT ![Len(c.stack)].got = Append(@, b)],
                                 cur |-> c.cur + 1, st |-> "Run", val |-> NoTerm,
                                 err |-> NoErr, buf |-> filled],
                                c.src, c.oc)
                    amid == /\ f.op \in FillOps
                            /\ o.kind = "decode" /\ o.st = "Run"
                            /\ o.stack[Len(o.stack)].op \in FillOps
                            /\ o.stack[Len(o.stack)].got # <<>>
                IN  /\ calls' = [calls EXCEPT ![i] =
                                    [c EXCEPT !.stack = m.stack, !.cur = m.cur, !.st = m.st,
                                              !.val = m.val, !.err = m.err,
                                              !.mixed = @ \/ amid]]
                    /\ scratch' = [scratch EXCEPT ![own] = m.buf]
    /\ UNCHANGED <<term, sink, enc_result, wire, source, origin, dec_result>>

\* what an encode call still has to do, in order: bytes to write, terms to
\* encode, and the return of an error or panic
BytesItem(b) == [k |-> "bytes", b |-> b, t |-> NoTerm, st |-> "Ok", err |-> NoErr]
TermItem(t) == [k |-> "term", b |-> <<>>, t |-> t, st |-> "Ok", err |-> NoErr]
EndItem(st, err) == [k |-> "end", b |-> <<>>, t |-> NoTerm, st |-> st, err |-> err]
TermItems(ts) == Tup([j \in 1..Len(ts) |-> TermItem(ts[j])], Len(ts))

\* encode_term(t): encode_tuple and the LIST_EXT branch of encode_list write
\* a header and call encode_term for each element; the other arms are taken
\* whole, their bytes still going out one at a time
expand(t, oc) ==
    CASE t.type = "Tuple" ->
           <<BytesItem(IF Len(t.elements) < U8_MAX + 1
                       THEN <<SMALL_TUPLE_EXT, u8_of(Len(t.elements))>>
                       ELSE <<LARGE_TUPLE_EXT>> \o u32_bytes(Len(t.elements)))>>
           \o TermItems(t.elements)
      [] /\ t.type = "List" /\ ~ is_nil(t)
         /\ ~ (Len(t.elements) <= U16_MAX
               /\ \A j \in 1..Len(t.elements) : to_byte_is_some(t.elements[j])) ->
           <<BytesItem(<<LIST_EXT>> \o u32_bytes(Len(t.elements)))>>
           \o TermItems(t.elements) \o <<BytesItem(<<NIL_EXT>>)>>
      [] OTHER ->
           LET r == encode_term(t, oc)
           IN  <<BytesItem(r.out)>> \o (IF r.st = "Ok" THEN <<>> ELSE <<EndItem(r.st, r.err)>>)

\* the call runs on until it has a byte to write or returns
RECURSIVE unfold(_, _)
unfold(todo, oc) ==
    IF todo = <<>> THEN todo
    ELSE LET h == Head(todo)
         IN  CASE h.k = "bytes" -> IF h.b = <<>> THEN unfold(Tail(todo), oc) ELSE todo
               [] h.k = "term" -> unfold(expand(h.t, oc) \o Tail(todo), oc)
               [] OTHER -> todo

\* AsyncEncoder::new(writer).encode(&t) up to its first write
StartEncode(i) ==
    /\ calls[i].kind = "none"
    /\ \E t \in ConcTerms, oc \in BOOLEAN :
          calls' = [calls EXCEPT ![i] =
                       [NoCall EXCEPT !.kind = "encode", !.oc = oc, !.st = "Run",
                                      !.term = t,
                                      !.todo = <<BytesItem(<<VERSION>>), TermItem(t)>>]]
    /\ UNCHANGED <<term, sink, enc_result, wire, source, origin, dec_result, scratch>>

\* call i's writer takes one byte
EncodeStep(i) ==
    /\ calls[i].kind = "encode"
    /\ calls[i].st = "Run"
    /\ LET c == calls[i]
           h == Head(c.todo)
           rest == unfold(<<BytesItem(Tail(h.b))>> \o Tail(c.todo), c.oc)
           o == calls[Other(i)]
       IN  calls' = [calls EXCEPT ![i] =
                        [c EXCEPT !.sink = Append(@, Head(h.b)),
                                  !.todo = IF rest # <<>> /\ rest[1].k = "end" THEN <<>> ELSE rest,
                                  !.st = IF rest = <<>> THEN "Ok"
                                         ELSE IF rest[1].k = "end" THEN rest[1].st
                                         ELSE "Run",
                                  !.err = IF rest # <<>> /\ rest[1].k = "end" THEN rest[1].err
                                          ELSE NoErr,
                                  !.mixed = @ \/ (o.kind = "encode" /\ o.st = "Run"
                                                    /\ o.sink # <<>>)]]
    /\ UNCHANGED <<term, sink, enc_result, wire, source, origin, dec_result, scratch>>

ConcNext ==
    \E i \in Ids : StartDecode(i) \/ DecodeStep(i) \/ StartEncode(i) \/ EncodeStep(i)

ConcSpec == Init /\ [][ConcNext]_vars

---------------------------------------------------------------------------
(* Properties                                                              *)

Encoded == enc_result.st # "None"
Decoded == dec_result.st # "None"
\* decode ran on exactly the bytes encode wrote
RoundTripped == Encoded /\ origin = "whole" /\ Decoded

IsByte(e) == e.type = "FixInteger" /\ 0 <= e.value /\ e.value <= 255
IsByteRangeList(t) ==
    t.type = "List" /\ t.elements # <<>> /\ \A i \in 1..Len(t.elements) : IsByte(t.elements[i])

\* the size invariants of section 3, at every depth
RECURSIVE WithinLimits(_)
WithinLimits(t) ==
    CASE t.type = "Atom" -> Len(t.name) <= 65535
      [] t.type \in {"Pid", "Port"} -> WithinLimits(t.node)
      [] t.type = "Reference" -> Len(t.ids) <= 65535 /\ WithinLimits(t.node)
      [] t.type = "ExternalFun" -> WithinLimits(t.module) /\ WithinLimits(t.function)
      [] t.type \in {"InternalFunOld", "InternalFunNew"} ->
           /\ WithinLimits(t.module) /\ WithinLimits(t.pid)
           /\ \A i \in 1..Len(t.free_vars) : WithinLimits(t.free_vars[i])
      [] t.type = "BitBinary" -> t.tail_bits_size \in 1..8
      [] t.type \in {"List", "Tuple"} ->
           \A i \in 1..Len(t.elements) : WithinLimits(t.elements[i])
      [] t.type = "ImproperList" ->
           WithinLimits(t.last) /\ \A i \in 1..Len(t.elements) : WithinLimits(t.elements[i])
      [] t.type = "Map" ->
           \A i \in 1..Len(t.entries) :
               WithinLimits(t.entries[i][1]) /\ WithinLimits(t.entries[i][2])
      [] OTHER -> TRUE

\* t with every proper List of integers in 0..255, at any depth, replaced by
\* the ByteList of the same bytes
RECURSIVE AsByteLists(_)
AsByteListsAll(ts) == Tup([i \in 1..Len(ts) |-> AsByteLists(ts[i])], Len(ts))
AsByteLists(t) ==
    CASE IsByteRangeList(t) ->
           ByteList(Tup([i \in 1..Len(t.elements) |-> t.elements[i].value], Len(t.elements)))
      [] t.type \in {"List", "Tuple"} /\ ~ IsByteRangeList(t) ->
           [t EXCEPT !.elements = AsByteListsAll(t.elements)]
      [] t.type = "ImproperList" ->
           [t EXCEPT !.elements = AsByteListsAll(t.elements), !.last = AsByteLists(t.last)]
      [] t.type \in {"InternalFunOld", "InternalFunNew"} ->
           [t EXCEPT !.free_vars = AsByteListsAll(t.free_vars)]
      [] t.type = "Map" ->
           [t EXCEPT !.entries =
               Tup([i \in 1..Len(t.entries) |->
                     <<AsByteLists(t.entries[i][1]), AsByteLists(t.entries[i][2])>>],
                   Len(t.entries))]
      [] OTHER -> t

\* C1.  Round-trip: for every Term within the size invariants, decode of the
\* bytes encode wrote succeeds and returns an equal term, a List of integers
\* in 0..255 being allowed to come back as the ByteList of the same bytes.
C1_RoundTrip ==
    (RoundTripped /\ WithinLimits(term)) =>
        /\ enc_result.st = "Ok"
        /\ dec_result.st = "Ok"
        /\ TermEq(AsByteLists(dec_result.term), AsByteLists(term))

\* C2.  Version check: a source whose first byte is not 131 fails with
\* UnsupportedVersion carrying that byte, after exactly one byte was consumed
\* and no tag was read.
C2_VersionCheck ==
    (Decoded /\ source # <<>> /\ source[1] # 131) =>
        /\ dec_result.st = "Err"
        /\ dec_result.err = UnsupportedVersion(source[1])
        /\ dec_result.pos = 1
        /\ dec_result.tags = <<>>
        /\ dec_result.term = NoTerm

C2_Witness ==
    /\ Decoded /\ Len(source) >= 3 /\ source[1] # 131
    /\ dec_result.err.type = "UnsupportedVersion"

\* C3.  Unimplemented tags: when the decoder meets tag 80, 68 or 82, at the
\* top level or nested, decode returns an error that signals "not
\* implemented"; it does not unwind without returning and does not report
\* the tag as unknown.
C3_UnimplementedIsAnError ==
    (Decoded /\ \E i \in 1..Len(dec_result.tags) : dec_result.tags[i] \in {80, 68, 82}) =>
        /\ dec_result.st = "Err"
        /\ dec_result.err.type \notin {"UnknownTag", "None"}

\* C4.  Unknown tag: when a byte the decoder reads as a tag, at the top level
\* or nested, is none of the format's tags, decode fails with UnknownTag
\* carrying that byte and returns no term.
C4_UnknownTag ==
    Decoded =>
        \A i \in 1..Len(dec_result.tags) :
            dec_result.tags[i] \notin KnownTags =>
                /\ dec_result.st = "Err"
                /\ dec_result.err = UnknownTag(dec_result.tags[i])
                /\ dec_result.term = NoTerm

C4_Witness ==
    /\ Decoded /\ dec_result.err.type = "UnknownTag"
    /\ Len(dec_result.tags) >= 3
    /\ dec_result.tags[1] \in {SMALL_TUPLE_EXT, LIST_EXT, MAP_EXT}

\* a stream that decodes to a term, to its last byte, under either profile
WellFormed(bytes) ==
    \A oc \in BOOLEAN : LET r == decode(bytes, oc) IN r.st = "Ok" /\ r.pos = Len(bytes)

\* C5.  Short read: on the empty source and on every strict prefix of a
\* well-formed encoding decode fails with an I/O error and returns no term,
\* nor the part of a composite built so far.
C5_ShortRead ==
    (Decoded /\ (source = <<>> \/ (origin = "prefix" /\ WellFormed(wire)))) =>
        /\ dec_result.st = "Err"
        /\ dec_result.err = IoError("UnexpectedEof")
        /\ dec_result.term = NoTerm

C5_Witness ==
    /\ Decoded /\ origin = "prefix" /\ WellFormed(wire)
    /\ Len(dec_result.tags) >= 3
    /\ dec_result.tags[1] \in {LIST_EXT, SMALL_TUPLE_EXT, MAP_EXT, FUN_EXT}
    /\ dec_result.err.type = "Io"

\* C6.  Compactness: a proper List of 1..65535 elements, each a FixInteger in
\* 0..255, is written as STRING_EXT, the 16-bit big-endian count and one byte
\* per element, with no LIST_EXT tag and no NIL terminator.
C6_Compactness ==
    (Encoded /\ IsByteRangeList(term) /\ Len(term.elements) <= 65535) =>
        LET n == Len(term.elements)
        IN  /\ enc_result.st = "Ok"
            /\ Len(sink) = 4 + n
            /\ SubSeq(sink, 1, 4) = <<131, 107, n \div 256, n % 256>>
            /\ \A i \in 1..n : sink[4 + i] = term.elements[i].value

C6_Witness ==
    /\ Encoded /\ IsByteRangeList(term)
    /\ \E i \in 1..Len(term.elements) : term.elements[i].value = 255
    /\ sink[2] = 107

\* the bytes of the elements FixInteger(1), Atom "a" and the empty list
LeafBytes(e) ==
    CASE e = FixInteger(1) -> <<97, 1>>
      [] e = AtomA -> <<100, 0, 1, 97>>
      [] e = Nil -> <<106>>
RECURSIVE LeavesBetween(_, _, _)
LeavesBetween(es, lo, hi) ==
    IF lo > hi THEN <<>>
    ELSE IF lo = hi THEN LeafBytes(es[lo])
    ELSE LeavesBetween(es, lo, (lo + hi) \div 2) \o LeavesBetween(es, (lo + hi) \div 2 + 1, hi)
LeavesBytes(es) == LeavesBetween(es, 1, Len(es))
AllLeaves(es) == \A i \in 1..Len(es) : es[i] \in {FixInteger(1), AtomA, Nil}

\* C7.  Canonical empty list: the bare NIL tag and LIST_EXT with count 0 and a
\* NIL tail decode to the same empty List, and the empty List is written as
\* the single byte NIL_EXT at the top level, as an element of a tuple or
\* list, and as the tail of a non-empty proper list.
C7_CanonicalNil ==
    /\ (Decoded /\ source \in {<<131, 106>>, <<131, 108, 0, 0, 0, 0, 106>>}) =>
           (dec_result.st = "Ok" /\ dec_result.term = Nil)
    /\ (Encoded /\ term = Nil) => (enc_result.st = "Ok" /\ sink = <<131, 106>>)
    /\ (Encoded /\ term.type = "Tuple" /\ AllLeaves(term.elements)
          /\ Len(term.elements) <= 255) =>
           sink = <<131, 104, Len(term.elements)>> \o LeavesBytes(term.elements)
    /\ (Encoded /\ term.type = "List" /\ AllLeaves(term.elements)
          /\ ~ IsByteRangeList(term) /\ term # Nil) =>
           sink = <<131, 108, 0, 0, 0, Len(term.elements)>>
                  \o LeavesBytes(term.elements) \o <<106>>

C7_Witness ==
    /\ Encoded /\ term = List(<<AtomA, Nil>>)
    /\ sink = <<131, 108, 0, 0, 0, 2, 100, 0, 1, 97, 106, 106>>

IsBitBinary(t) == t.type = "BitBinary" /\ t.bytes # <<>> /\ t.tail_bits_size \in 1..8

C9_NoPartialWrite ==
    (Encoded /\ enc_result.st = "Err" /\ term.type \in {"Atom", "Reference"}
       /\ enc_result.err.type \in {"TooLongAtomName", "TooLargeReferenceId"}
       /\ (term.type = "Reference" => enc_result.err.type = "TooLargeReferenceId")) =>
        sink = <<131>>

RECURSIVE HasLongAtom(_)
HasLongAtom(t) ==
    CASE t.type = "Atom" -> Len(t.name) > 65535
      [] t.type \in {"Pid", "Port", "Reference"} -> HasLongAtom(t.node)
      [] t.type = "ExternalFun" -> HasLongAtom(t.module) \/ HasLongAtom(t.function)
      [] t.type \in {"InternalFunOld", "InternalFunNew"} ->
           \/ HasLongAtom(t.module) \/ HasLongAtom(t.pid)
           \/ \E i \in 1..Len(t.free_vars) : HasLongAtom(t.free_vars[i])
      [] t.type \in {"List", "Tuple"} ->
           \E i \in 1..Len(t.elements) : HasLongAtom(t.elements[i])
      [] t.type = "ImproperList" ->
           HasLongAtom(t.last) \/ \E i \in 1..Len(t.elements) : HasLongAtom(t.elements[i])
      [] t.type = "Map" ->
           \E i \in 1..Len(t.entries) :
               HasLongAtom(t.entries[i][1]) \/ HasLongAtom(t.entries[i][2])
      [] OTHER -> FALSE

RECURSIVE HasLargeReference(_)
HasLargeReference(t) ==
    CASE t.type = "Reference" -> Len(t.ids) > 65535
      [] t.type \in {"List", "Tuple"} ->
           \E i \in 1..Len(t.elements) : HasLargeReference(t.elements[i])
      [] OTHER -> FALSE

\* C10.  An over-long atom is fatal wherever it occurs: encode of a term that
\* holds, at any depth, an Atom of more than 65535 bytes returns
\* TooLongAtomName and never Ok.  (Stated for the terms whose only breach of
\* a size limit is that atom.)
C10_LongAtomIsFatal ==
    (Encoded /\ HasLongAtom(term) /\ ~ HasLargeReference(term)) =>
        (enc_result.st = "Err" /\ enc_result.err.type = "TooLongAtomName")


\* C11.  No implicit truncation of counts: the 16-bit count written after
\* the STRING_EXT tag of a ByteList equals the number of payload bytes that
\* follow it; a ByteList of more than 65535 bytes is not written as a count
\* reduced modulo 2^16 followed by the whole payload.
C11_CountIsPayloadLength ==
    (Encoded /\ term.type = "ByteList" /\ Len(sink) >= 4) =>
        /\ sink[2] = 107
        /\ sink[3] * 256 + sink[4] = Len(sink) - 4


\* byte k (0 the lowest) of the 32-bit two's complement form of v
TwosComplementByte(v, k) ==
    (v \div (CASE k = 0 -> 1 [] k = 1 -> 256 [] k = 2 -> 65536 [] OTHER -> 16777216)) % 256

\* C12.  FixInteger form: a FixInteger v is written in the 1-byte form (tag
\* 97, one byte) exactly when 0 <= v <= 255 and otherwise in the 4-byte form
\* (tag 98, big-endian two's complement), so 255 takes the 1-byte form and
\* 256 and -1 the 4-byte form; decoding either form returns FixInteger v.
C12_FixIntegerForm ==
    /\ (Encoded /\ term.type = "FixInteger") =>
           /\ enc_result.st = "Ok"
           /\ IF 0 <= term.value /\ term.value <= 255
              THEN sink = <<131, 97, term.value>>
              ELSE sink = <<131, 98, TwosComplementByte(term.value, 3),
                            TwosComplementByte(term.value, 2),
                            TwosComplementByte(term.value, 1),
                            TwosComplementByte(term.value, 0)>>
           /\ RoundTripped => (dec_result.st = "Ok" /\ dec_result.term = term)
    /\ (Decoded /\ source = <<131, 97, 5>>) => dec_result.term = FixInteger(5)
    /\ (Decoded /\ source = <<131, 98, 0, 0, 0, 5>>) => dec_result.term = FixInteger(5)
    /\ (Decoded /\ source = <<131, 98, 0, 0, 4, 210>>) => dec_result.term = FixInteger(1234)
    /\ (Decoded /\ source = <<131, 98, 255, 255, 251, 46>>) => dec_result.term = FixInteger(-1234)

C12_Witness ==
    /\ RoundTripped /\ term = FixInteger(-1)
    /\ sink = <<131, 98, 255, 255, 255, 255>>
    /\ dec_result.term = FixInteger(-1)


\* C14.  New-fun layout: an InternalFun::New is written as the NEW_FUN tag,
\* a 32-bit size, the arity byte, the 16 uniq bytes, the 32-bit index and
\* the 32-bit free-variable count, then the module, old_index, old_uniq, the
\* pid and the free variables; the size is 4 plus the number of bytes after
\* it, and decode_new_fun_ext reads the same fields back.
C14_NewFunLayout ==
    (Encoded /\ term.type = "InternalFunNew" /\ WithinLimits(term)) =>
        /\ enc_result.st = "Ok"
        /\ Len(sink) >= 31
        /\ SubSeq(sink, 1, 2) = <<131, 112>>
        /\ be_u32(SubSeq(sink, 3, 6)) = 4 + (Len(sink) - 6)
        /\ sink[7] = term.arity
        /\ SubSeq(sink, 8, 23) = term.uniq16
        /\ SubSeq(sink, 24, 27) = term.index32
        /\ be_u32(SubSeq(sink, 28, 31)) = Len(term.free_vars)
        /\ RoundTripped => (dec_result.st = "Ok" /\ TermEq(dec_result.term, term))


\* t holds, at the top or as an element, a BitBinary with bytes whose
\* tail_bits_size is outside 1..8
RECURSIVE HasIllFormedBitBinary(_)
HasIllFormedBitBinary(t) ==
    CASE t.type = "BitBinary" -> t.bytes # <<>> /\ t.tail_bits_size \notin 1..8
      [] t.type \in {"List", "Tuple"} ->
           \E i \in 1..Len(t.elements) : HasIllFormedBitBinary(t.elements[i])
      [] OTHER -> FALSE

\* C15.  Decoded BitBinary invariant: every BitBinary that decode returns
\* with non-empty bytes has tail_bits_size in 1..8; a bit-binary payload with
\* bytes and a tail-bit count of 0 or above 8 yields no such term and does
\* not make the shift by 8 - tail_bits_size underflow or overflow.
C15_DecodedBitBinary ==
    Decoded =>
        /\ dec_result.st = "Ok" => ~ HasIllFormedBitBinary(dec_result.term)
        /\ (\E i \in 1..Len(dec_result.tags) : dec_result.tags[i] = 77) =>
               dec_result.st # "Panic"

\* C15, the release profile alone: no term with an ill-formed BitBinary
C15_NoIllFormedTerm ==
    (Decoded /\ dec_result.st = "Ok") => ~ HasIllFormedBitBinary(dec_result.term)

\* C15, the debug profile alone: no overflow panic in the bit-binary arm
C15_NoShiftPanic ==
    (Decoded /\ \E i \in 1..Len(dec_result.tags) : dec_result.tags[i] = 77) =>
        dec_result.st # "Panic"


\* the source is a small-big or large-big payload, all of its digits
\* present, with the sign byte `sign`
IsBigWithSign(bytes, sign) ==
    \/ /\ Len(bytes) >= 4 /\ bytes[1] = 131 /\ bytes[2] = 110
       /\ bytes[4] = sign /\ Len(bytes) >= 4 + bytes[3]
    \/ /\ Len(bytes) >= 7 /\ bytes[1] = 131 /\ bytes[2] = 111
       /\ bytes[7] = sign /\ bytes[3] = 0 /\ Len(bytes) >= 7 + be_u32(SubSeq(bytes, 3, 6))

\* C16.  Invalid big-integer sign: a small-big or large-big payload whose
\* sign byte is neither 0 nor 1 fails to decode, returns no term, and the
\* error is the out-of-range kind carrying the sign byte, not an I/O error.
C16_InvalidSignIsOutOfRange ==
    (Decoded /\ \E sign \in 2..255 : IsBigWithSign(source, sign)) =>
        /\ dec_result.st = "Err"
        /\ dec_result.term = NoTerm
        /\ dec_result.err.type = "OutOfRange"
        /\ dec_result.err.type # "Io"


\* C17.  Compaction only for byte-range lists: a non-empty proper List with
\* an element that is not a FixInteger in 0..255 is not written with the
\* STRING_EXT tag but with LIST_EXT, and decoding what the encoder wrote
\* gives a list whose elements have the values of the original.
C17_CompactionOnlyForBytes ==
    (Encoded /\ enc_result.st = "Ok" /\ term.type = "List" /\ term # Nil
       /\ ~ IsByteRangeList(term)) =>
        /\ sink[2] # 107
        /\ sink[2] = 108
        /\ RoundTripped =>
               /\ dec_result.st = "Ok"
               /\ TermEq(AsByteLists(dec_result.term), AsByteLists(term))


\* EXPORT_EXT with the module and the function 'a', before the arity term
ExportHead == <<131, 113, 100, 0, 1, 97, 100, 0, 1, 97>>
IsExportWith(bytes, arity_term) == bytes = ExportHead \o arity_term

\* the value of the four bytes of an INTEGER_EXT payload
Int32Of(b) ==
    IF b[1] >= 128
    THEN -2147483647 - 1 + ((((b[1] - 128) * 256 + b[2]) * 256 + b[3]) * 256 + b[4])
    ELSE ((b[1] * 256 + b[2]) * 256 + b[3]) * 256 + b[4]

ExportArityResult(n) ==
    IF 0 <= n /\ n <= 255
    THEN /\ dec_result.st = "Ok"
         /\ dec_result.term = ExternalFun(AtomA, AtomA, n)
    ELSE /\ dec_result.st = "Err"
         /\ dec_result.term = NoTerm
         /\ dec_result.err.type = "OutOfRange"
         /\ dec_result.err.bad = n

\* C18.  Export arity: decode_export_ext returns ExternalFun with arity n
\* exactly when the arity term is a FixInteger n with 0 <= n <= 255 (255
\* included), fails with OutOfRange carrying n when n < 0 or n > 255, and
\* fails with UnexpectedType when the arity term is no FixInteger; the
\* arity is never reduced modulo 256.
C18_ExportArity ==
    /\ Decoded =>
           /\ \A n \in 0..255 : IsExportWith(source, <<97, n>>) => ExportArityResult(n)
           /\ (Len(source) = 15 /\ IsExportWith(source, <<98>> \o SubSeq(source, 12, 15))) =>
                  ExportArityResult(Int32Of(SubSeq(source, 12, 15)))
           /\ IsExportWith(source, <<100, 0, 1, 97>>) =>
                  /\ dec_result.st = "Err"
                  /\ dec_result.err = UnexpectedType(AtomA, "FixInteger")
                  /\ dec_result.term = NoTerm
    /\ (RoundTripped /\ term.type = "ExternalFun" /\ WithinLimits(term)) =>
           (dec_result.st = "Ok" /\ dec_result.term = term)

C18_Witness ==
    /\ Decoded /\ IsExportWith(source, <<98, 0, 0, 0, 255>>)
    /\ dec_result.st = "Ok" /\ dec_result.term.arity = 255

\* an arity above 255 is met and refused
C18_WitnessRefused ==
    /\ Decoded /\ IsExportWith(source, <<98, 0, 0, 1, 0>>)
    /\ dec_result.err = OutOfRange(256, 0, 255)


\* what call c returns and moves when it runs alone
AloneDecode(c) == decode(c.src, c.oc)
AloneEncode(c) == encode(c.term, c.oc)
IsPrefix(a, b) == Len(a) <= Len(b) /\ a = SubSeq(b, 1, Len(a))

\* C13.  Independence of concurrent calls: two decode or encode calls over
\* independent streams, interleaved in any order at their reads and writes,
\* each return the result and consume or produce the bytes of the same call
\* run alone; they share neither cursor nor scratch buffer.
C13_Independence ==
    \A i \in Ids :
        LET c == calls[i]
            d == AloneDecode(c)
            e == AloneEncode(c)
        IN  /\ (c.kind = "decode" /\ c.st # "Run") =>
                   /\ c.st = d.st
                   /\ c.val = d.term
                   /\ c.err = d.err
                   /\ c.cur = d.pos
            /\ (c.kind = "decode" /\ c.st = "Run") => c.cur <= d.pos
            /\ (c.kind = "encode" /\ c.st # "Run") =>
                   /\ c.st = e.st
                   /\ c.err = e.err
                   /\ c.sink = e.out
            /\ (c.kind = "encode" /\ c.st = "Run") => IsPrefix(c.sink, e.out)

C13_Witness ==
    /\ calls["A"].kind = "decode" /\ calls["B"].kind = "decode"
    /\ calls["A"].mixed /\ calls["B"].mixed
    /\ calls["A"].st = "Ok" /\ calls["A"].val = AtomHoge
    /\ calls["B"].st = "Ok" /\ calls["B"].val = Atom(<<111, 110>>)

\* two encode calls that wrote in turns
C13_WitnessEncode ==
    /\ calls["A"].kind = "encode" /\ calls["B"].kind = "encode"
    /\ calls["A"].mixed /\ calls["B"].mixed
    /\ calls["A"].st = "Ok" /\ calls["A"].term = Tuple(<<AtomA, Nil>>)
    /\ calls["B"].st = "Ok" /\ calls["B"].term = List(<<AtomA, FixInteger(1)>>)

=============================================================================
